---- MODULE Spec2Model ----
(***************************************************************************)
(* Model of src/main.py: a fuzzy controller configured on top of the       *)
(* skfuzzy control API.  Two antecedents (padrao, metragem), one           *)
(* consequent (valor), eight rules, one simulation: inputs are set,        *)
(* compute() is called and the output is printed.                          *)
(*                                                                         *)
(* Degrees are exact rationals, stored as integers in units of 1/Full.     *)
(* Crisp inputs are rationals, stored as integers in units of 1/Den.       *)
(***************************************************************************)
EXTENDS Integers, Sequences, FiniteSets, TLC

VARIABLES pc, padrao, metragem, valor, valorping_ctrl,
          input, membership, firing, aggregated, output, printed

vars == <<pc, padrao, metragem, valor, valorping_ctrl,
          input, membership, firing, aggregated, output, printed>>

\* Resolution of the crisp inputs explored: each unit of a universe is
\* divided by Res interior points, so inputs are multiples of 1/(Res + 1).
Res == 1

Den == Res + 1

\* The integer that stands for membership degree 1.
Full == 100 * Den

Min2(a, b) == IF a <= b THEN a ELSE b

Max2(a, b) == IF a >= b THEN a ELSE b

SetMax(S) == IF S = {} THEN 0 ELSE CHOOSE e \in S : \A u \in S : u <= e

SetMin(S) == IF S = {} THEN Full ELSE CHOOSE e \in S : \A u \in S : e <= u

\* Sum of f over the integers lo..hi.
RECURSIVE SumRange(_, _, _)
SumRange(f, lo, hi) ==
  IF lo > hi THEN 0
  ELSE IF lo = hi THEN f[lo]
  ELSE LET mid == (lo + hi) \div 2
       IN SumRange(f, lo, mid) + SumRange(f, mid + 1, hi)

EmptyDict == [k \in {} |-> 0]

\* np.arange(start, stop, 1): start, start+1, ..., stop-1 (stop excluded).
Arange(start, stop) == start .. (stop - 1)

padraoUniverse == Arange(0, 11)

metragemUniverse == Arange(0, 101)

\* Variant: the universe of valor sampled through 100 inclusive.
valorUniverse_inclusive == Arange(0, 101)

valorUniverse == Arange(0, 100)

\* Variant: the peak sample x = b is not set to 1.
trimf_nopeak(x, abc) ==
  LET a == abc[1]
      b == abc[2]
      c == abc[3]
  IN [v \in x |->
        IF a # b /\ a < v /\ v < b THEN ((v - a) * Full) \div (b - a)
        ELSE IF b # c /\ b < v /\ v < c THEN ((c - v) * Full) \div (c - b)
        ELSE 0]

\* fuzz.trimf(x, [a, b, c]): triangular membership sampled on universe x.
trimf(x, abc) ==
  LET a == abc[1]
      b == abc[2]
      c == abc[3]
  IN [v \in x |->
        IF v = b THEN Full
        ELSE IF a # b /\ a < v /\ v < b THEN ((v - a) * Full) \div (b - a)
        ELSE IF b # c /\ b < v /\ v < c THEN ((c - v) * Full) \div (c - b)
        ELSE 0]

\* Variant: each triangle reaches a full width, not half a width, to each side.
automf_abcs_wide(x) ==
  LET lo == CHOOSE e \in x : (e - 1) \notin x
      hi == CHOOSE e \in x : (e + 1) \notin x
      w  == hi - lo
      mid == lo + (w \div 2)
  IN [poor    |-> <<lo - w, lo, lo + w>>,
      average |-> <<mid - w, mid, mid + w>>,
      good    |-> <<hi - w, hi, hi + w>>]

\* Breakpoints chosen by automf(3) on a universe: three triangles centred
\* on min, mid and max, each of half-width (max - min) / 2.
automf_abcs(x) ==
  LET lo == CHOOSE e \in x : (e - 1) \notin x
      hi == CHOOSE e \in x : (e + 1) \notin x
      w  == hi - lo
      mid == lo + (w \div 2)
      h  == w \div 2
  IN [poor    |-> <<lo - h, lo, lo + h>>,
      average |-> <<mid - h, mid, mid + h>>,
      good    |-> <<hi - h, hi, hi + h>>]

\* variable.automf(3): the terms poor / average / good.
automf(x) ==
  [poor    |-> trimf(x, automf_abcs(x).poor),
   average |-> trimf(x, automf_abcs(x).average),
   good    |-> trimf(x, automf_abcs(x).good)]

\* Breakpoints of the six sets of valor.
valor_abcs ==
  [barato     |-> <<0, 0, 20>>,
   meiobarato |-> <<0, 20, 40>>,
   mediobaixo |-> <<20, 40, 60>>,
   medioalto  |-> <<40, 60, 80>>,
   meiocaro   |-> <<60, 80, 100>>,
   caro       |-> <<80, 100, 100>>]

valor_terms ==
  [l \in DOMAIN valor_abcs |-> trimf(valorUniverse, valor_abcs[l])]

\* ctrl.Rule(antecedent, consequent): the antecedent is a sequence of
\* (variable, label) terms joined by &, the consequent a label of valor.
\* Variant: rule1 concludes meiobarato.
rule1_meiobarato ==
  [antecedent |-> << <<"padrao", "poor">>, <<"metragem", "poor">> >>,
   consequent |-> "meiobarato"]

rule1 == [antecedent |-> << <<"padrao", "poor">>, <<"metragem", "poor">> >>,
          consequent |-> "barato"]

\* Variant: rule2 tests padrao['average'].
rule2_average ==
  [antecedent |-> << <<"padrao", "average">>, <<"metragem", "average">> >>,
   consequent |-> "mediobaixo"]

rule2 == [antecedent |-> << <<"padrao", "poor">>, <<"metragem", "average">> >>,
          consequent |-> "mediobaixo"]

\* Variant: rule3 concludes medioalto.
rule3_medioalto ==
  [antecedent |-> << <<"padrao", "average">>, <<"metragem", "poor">> >>,
   consequent |-> "medioalto"]

rule3 == [antecedent |-> << <<"padrao", "average">>, <<"metragem", "poor">> >>,
          consequent |-> "meiobarato"]

rule4 == [antecedent |-> << <<"padrao", "good">>, <<"metragem", "poor">> >>,
          consequent |-> "meiocaro"]

\* Variant: rule5 tests padrao['good'].
rule5_good ==
  [antecedent |-> << <<"padrao", "good">>, <<"metragem", "good">> >>,
   consequent |-> "meiobarato"]

rule5 == [antecedent |-> << <<"padrao", "poor">>, <<"metragem", "good">> >>,
          consequent |-> "meiobarato"]

rule6 == [antecedent |-> << <<"metragem", "poor">> >>,
          consequent |-> "barato"]

rule7 == [antecedent |-> << <<"metragem", "good">> >>,
          consequent |-> "caro"]

rule8 == [antecedent |-> << <<"metragem", "good">>, <<"padrao", "good">> >>,
          consequent |-> "caro"]

\* fuzz.interp_membership(x, xmf, xx): linear interpolation of the sampled
\* curve xmf at the crisp value xx / Den.
interp_membership(xmf, xx) ==
  LET lo == xx \div Den
      k  == xx % Den
  IN IF k = 0 THEN xmf[lo]
     ELSE xmf[lo] + (((xmf[lo + 1] - xmf[lo]) * k) \div Den)

\* Fuzzification of both antecedents at the current inputs.
Fuzzify(p, m, inp) ==
  [padrao   |-> [l \in DOMAIN p |-> interp_membership(p[l], inp.padrao)],
   metragem |-> [l \in DOMAIN m |-> interp_membership(m[l], inp.metragem)]]

\* Firing strength of a rule: & is the minimum of its terms.
FiringStrength(rule, mem) ==
  SetMin({mem[rule.antecedent[i][1]][rule.antecedent[i][2]] :
            i \in 1 .. Len(rule.antecedent)})

Firing(rules, mem) ==
  [i \in 1 .. Len(rules) |-> FiringStrength(rules[i], mem)]

\* Labels of valor that some rule targets.
Targeted(rules) == {rules[i].consequent : i \in 1 .. Len(rules)}

\* Activation of a label: maximum firing strength of the rules targeting it.
Cut(rules, fire, l) ==
  SetMax({fire[i] : i \in {j \in 1 .. Len(rules) : rules[j].consequent = l}})

\* Aggregated output curve: each targeted set clipped at its activation,
\* united by pointwise maximum.
Aggregate(rules, fire, v) ==
  LET cuts == [l \in Targeted(rules) |-> Cut(rules, fire, l)]
  IN [x \in valorUniverse |->
        SetMax({Min2(cuts[l], v[l][x]) : l \in DOMAIN cuts})]

\* Variant: a curve of zero area is defuzzified like any other.
ZeroArea_ignored(curve) == FALSE

\* The defuzzifier refuses a curve of zero total area.
ZeroArea(curve) == \A x \in DOMAIN curve : curve[x] = 0

\* Centroid sum(x_i * degree_i) / sum(degree_i), kept as <<num, den>>.
Centroid(curve) ==
  LET lo == CHOOSE e \in DOMAIN curve : (e - 1) \notin DOMAIN curve
      hi == CHOOSE e \in DOMAIN curve : (e + 1) \notin DOMAIN curve
  IN <<SumRange([x \in DOMAIN curve |-> x * curve[x]], lo, hi),
       SumRange(curve, lo, hi)>>

\* Crisp inputs within the universe of each antecedent, in units of 1/Den.
InRange(x) ==
  ((CHOOSE e \in x : (e - 1) \notin x) * Den) ..
  ((CHOOSE e \in x : (e + 1) \notin x) * Den)

PadraoInputs == InRange(padraoUniverse)

MetragemInputs == InRange(metragemUniverse)

Init ==
  /\ pc = "l68"
  /\ padrao = EmptyDict
  /\ metragem = EmptyDict
  /\ valor = EmptyDict
  /\ valorping_ctrl = <<>>
  /\ input = EmptyDict
  /\ membership = EmptyDict
  /\ firing = <<>>
  /\ aggregated = EmptyDict
  /\ output = EmptyDict
  /\ printed = <<>>

\* line 68: padrao.automf(3)
AutomfPadrao ==
  /\ pc = "l68"
  /\ padrao' = automf(padraoUniverse)
  /\ pc' = "l69"
  /\ UNCHANGED <<metragem, valor, valorping_ctrl, input, membership, firing,
                 aggregated, output, printed>>

\* line 69: metragem.automf(3)
AutomfMetragem ==
  /\ pc = "l69"
  /\ metragem' = automf(metragemUniverse)
  /\ pc' = "l74"
  /\ UNCHANGED <<padrao, valor, valorping_ctrl, input, membership, firing,
                 aggregated, output, printed>>

\* lines 74-79: the six triangular sets of valor
DefineValorSets ==
  /\ pc = "l74"
  /\ valor' = valor_terms
  /\ pc' = "l117"
  /\ UNCHANGED <<padrao, metragem, valorping_ctrl, input, membership, firing,
                 aggregated, output, printed>>

\* lines 117-138: the eight rules and the ControlSystem over them
BuildControlSystem ==
  /\ pc = "l117"
  /\ valorping_ctrl' = <<rule1, rule2, rule3, rule4, rule5, rule6, rule7, rule8>>
  /\ pc' = "l149"
  /\ UNCHANGED <<padrao, metragem, valor, input, membership, firing,
                 aggregated, output, printed>>

\* line 149: ControlSystemSimulation(valorping_ctrl)
CreateSimulation ==
  /\ pc = "l149"
  /\ input' = EmptyDict
  /\ output' = EmptyDict
  /\ pc' = "l159"
  /\ UNCHANGED <<padrao, metragem, valor, valorping_ctrl, membership, firing,
                 aggregated, printed>>

\* line 159: valorping.input['padrao'] = v
SetInputPadrao ==
  /\ pc = "l159"
  /\ \E v \in PadraoInputs : input' = [k \in {"padrao"} |-> v]
  /\ pc' = "l160"
  /\ UNCHANGED <<padrao, metragem, valor, valorping_ctrl, membership, firing,
                 aggregated, output, printed>>

\* line 160: valorping.input['metragem'] = v
SetInputMetragem ==
  /\ pc = "l160"
  /\ \E v \in MetragemInputs :
        input' = [k \in {"padrao", "metragem"} |->
                    IF k = "padrao" THEN input["padrao"] ELSE v]
  /\ pc' = "l163"
  /\ UNCHANGED <<padrao, metragem, valor, valorping_ctrl, membership, firing,
                 aggregated, output, printed>>

\* line 163: valorping.compute()
Compute ==
  /\ pc = "l163"
  /\ LET mem  == Fuzzify(padrao, metragem, input)
         fire == Firing(valorping_ctrl, mem)
         agg  == Aggregate(valorping_ctrl, fire, valor)
     IN /\ membership' = mem
        /\ firing' = fire
        /\ aggregated' = agg
        /\ IF ZeroArea(agg)
           THEN /\ pc' = "raised"
                /\ output' = output
           ELSE /\ pc' = "l169"
                /\ output' = [k \in {"valor"} |-> Centroid(agg)]
  /\ UNCHANGED <<padrao, metragem, valor, valorping_ctrl, input, printed>>

\* line 169: print(valorping.output['valor'])
PrintOutput ==
  /\ pc = "l169"
  /\ printed' = Append(printed, output["valor"])
  /\ pc' = "done"
  /\ UNCHANGED <<padrao, metragem, valor, valorping_ctrl, input, membership,
                 firing, aggregated, output>>

Next ==
  \/ AutomfPadrao
  \/ AutomfMetragem
  \/ DefineValorSets
  \/ BuildControlSystem
  \/ CreateSimulation
  \/ SetInputPadrao
  \/ SetInputMetragem
  \/ Compute
  \/ PrintOutput

Spec == Init /\ [][Next]_vars

Computed == pc \in {"l169", "done", "raised"}

TypeOK == pc \in {"l68", "l69", "l74", "l117", "l149", "l159", "l160",
                  "l163", "l169", "done", "raised"}

(***************************************************************************)
(* Properties                                                              *)
(***************************************************************************)

\* The inputs of lines 159-160: padrao = 10, metragem = 100.
AtProgramInputs ==
  /\ DOMAIN input = {"padrao", "metragem"}
  /\ input["padrao"] = 10 * Den
  /\ input["metragem"] = 100 * Den

IntegerInputs ==
  /\ DOMAIN input = {"padrao", "metragem"}
  /\ input["padrao"] % Den = 0
  /\ input["metragem"] % Den = 0

NoRuleFired == \A i \in DOMAIN firing : firing[i] = 0

\* C1 (as stated): with inputs padrao = 10 and metragem = 100 the centroid
\* sum(x_i * degree_i) / sum(degree_i) of valor is 90 within 2%, that is
\* between 88.2 and 91.8.
C1_CentroidNear90 ==
  (Computed /\ AtProgramInputs) =>
     /\ "valor" \in DOMAIN output
     /\ 882 * output["valor"][2] <= 10 * output["valor"][1]
     /\ 10 * output["valor"][1] <= 918 * output["valor"][2]

\* C1 (amended): with inputs padrao = 10 and metragem = 100 compute()
\* succeeds and the centroid sum(x_i * degree_i) / sum(degree_i) of valor
\* over its sample points 0..99 is exactly 93, in the high end (at least 80)
\* of the output range.
C1_CentroidIs93 ==
  (Computed /\ AtProgramInputs) =>
     /\ pc # "raised"
     /\ "valor" \in DOMAIN output
     /\ output["valor"][2] > 0
     /\ output["valor"][1] = 93 * output["valor"][2]
     /\ output["valor"][1] >= 80 * output["valor"][2]

C1_Witness ==
  /\ pc = "done"
  /\ AtProgramInputs
  /\ printed = <<output["valor"]>>

\* C2: with inputs padrao = 10 and metragem = 100, rule7 and rule8 (both
\* concluding caro) fire with strength 1, the other six rules have strength
\* 0, and the aggregated curve of valor equals the caro curve at every
\* sample point.
C2_CaroDominates ==
  (Computed /\ AtProgramInputs) =>
     /\ Len(firing) = 8
     /\ valorping_ctrl[7].consequent = "caro"
     /\ valorping_ctrl[8].consequent = "caro"
     /\ firing[7] = Full
     /\ firing[8] = Full
     /\ \A i \in 1 .. 6 : firing[i] = 0
     /\ \A x \in valorUniverse : aggregated[x] = valor["caro"][x]

C2_Witness ==
  /\ pc = "l169"
  /\ AtProgramInputs
  /\ firing[8] = Full
  /\ aggregated = valor["caro"]

\* C3: whenever no rule has nonzero firing strength (the aggregated curve of
\* valor is zero everywhere), compute() raises and no output value for valor
\* exists or is printed.
C3_ZeroFiringRaises ==
  (Computed /\ NoRuleFired) =>
     /\ \A x \in DOMAIN aggregated : aggregated[x] = 0
     /\ pc = "raised"
     /\ "valor" \notin DOMAIN output
     /\ printed = <<>>

C3_Witness ==
  /\ pc = "raised"
  /\ NoRuleFired
  /\ "valor" \notin DOMAIN output

\* C4: the universe of valor runs from 0 through 100 inclusive, every
\* breakpoint of its six sets is a sample point, and each set reaches
\* degree 1 at its peak b.
C4_ValorUniverseTo100 ==
  (valor # EmptyDict) =>
     \A l \in DOMAIN valor :
        /\ DOMAIN valor[l] = 0 .. 100
        /\ \A i \in 1 .. 3 : valor_abcs[l][i] \in DOMAIN valor[l]
        /\ \E x \in DOMAIN valor[l] : x = valor_abcs[l][2] /\ valor[l][x] = Full

IsAndOfBoth(rule) ==
  /\ Len(rule.antecedent) = 2
  /\ {rule.antecedent[1][1], rule.antecedent[2][1]} = {"padrao", "metragem"}
  /\ \A i \in 1 .. 2 :
        rule.antecedent[i][2] \in {"poor", "average", "good"}

IsSingleMetragem(rule) ==
  /\ Len(rule.antecedent) = 1
  /\ rule.antecedent[1][1] = "metragem"
  /\ rule.antecedent[1][2] \in {"poor", "average", "good"}

\* C5 (as stated): the control system has 8 rules, each antecedent is an AND
\* of one padrao label and one metragem label, and each of the six labels of
\* valor is the consequent of at least one rule.
C5_AllAndAllLabels ==
  (valorping_ctrl # <<>>) =>
     /\ Len(valorping_ctrl) = 8
     /\ \A i \in 1 .. Len(valorping_ctrl) : IsAndOfBoth(valorping_ctrl[i])
     /\ \A l \in DOMAIN valor : l \in Targeted(valorping_ctrl)

\* C5 (amended): the control system has 8 rules; rules 1-5 and 8 have an AND
\* of one padrao label and one metragem label as antecedent, rule6 and rule7
\* a single metragem label; the consequents are exactly barato, meiobarato,
\* mediobaixo, meiocaro and caro, and medioalto is the consequent of no rule.
C5_SixAndFiveLabels ==
  (valorping_ctrl # <<>>) =>
     /\ Len(valorping_ctrl) = 8
     /\ \A i \in {1, 2, 3, 4, 5, 8} : IsAndOfBoth(valorping_ctrl[i])
     /\ \A i \in {6, 7} : IsSingleMetragem(valorping_ctrl[i])
     /\ Targeted(valorping_ctrl) = DOMAIN valor \ {"medioalto"}
     /\ DOMAIN valor = {"barato", "meiobarato", "mediobaixo", "medioalto",
                        "meiocaro", "caro"}

C5_Witness ==
  /\ pc = "l149"
  /\ Len(valorping_ctrl) = 8
  /\ "medioalto" \in DOMAIN valor

\* C7: each of the six sets of valor with breakpoints (a,b,c) is, over the
\* sample points, non-decreasing on [a,b], non-increasing on [b,c], exactly
\* 0 outside [a,c] and within [0,1].
C7_TriangleShape ==
  (valor # EmptyDict) =>
     \A l \in DOMAIN valor :
        LET a == valor_abcs[l][1]
            b == valor_abcs[l][2]
            c == valor_abcs[l][3]
            f == valor[l]
        IN \A x \in DOMAIN f :
              /\ 0 <= f[x] /\ f[x] <= Full
              /\ (x < a \/ x > c) => f[x] = 0
              /\ (x + 1 \in DOMAIN f /\ a <= x /\ x + 1 <= b) => f[x] <= f[x + 1]
              /\ (x + 1 \in DOMAIN f /\ b <= x /\ x + 1 <= c) => f[x] >= f[x + 1]

C7_Witness ==
  /\ pc = "l117"
  /\ valor["barato"][0] = Full
  /\ valor["barato"][1] < Full
  /\ valor["caro"][99] > valor["caro"][98]
  /\ valor["mediobaixo"][40] = Full

\* The sampled curves f and g are linear between neighbouring sample points,
\* so with d = f - g the points of equal degree are the sample points where
\* d = 0 and one interior point of every interval over which d changes
\* sign; an interval with d = 0 at both ends is equal throughout.
Diff(f, g, x) == f[x] - g[x]

EqualKnots(f, g) == {x \in DOMAIN f : Diff(f, g, x) = 0}

SignChanges(f, g) ==
  {x \in DOMAIN f : /\ x + 1 \in DOMAIN f
                    /\ Diff(f, g, x) * Diff(f, g, x + 1) < 0}

EqualThroughout(f, g) ==
  {x \in DOMAIN f : /\ x + 1 \in DOMAIN f
                    /\ Diff(f, g, x) = 0
                    /\ Diff(f, g, x + 1) = 0}

\* The common degree inside the interval [x, x+1] is 1/2: with
\* t = d(x) / (d(x) - d(x+1)) it is f[x] + (f[x+1] - f[x]) * t.
CrossesAtHalf(f, g, x) ==
  LET dx == Diff(f, g, x)
      dn == dx - Diff(f, g, x + 1)
  IN 2 * (f[x] * dn + (f[x + 1] - f[x]) * dx) = Full * dn

\* Number of points of the range at which f and g have the same degree.
NumEqualPoints(f, g) ==
  Cardinality(EqualKnots(f, g)) + Cardinality(SignChanges(f, g))

\* f and g have the same degree at exactly two points of the range: far,
\* where both are 0, and one other point, where both are 1/2.
OneCrossingAtHalf(f, g, far) ==
  /\ EqualThroughout(f, g) = {}
  /\ NumEqualPoints(f, g) = 2
  /\ far \in EqualKnots(f, g)
  /\ f[far] = 0
  /\ \A x \in EqualKnots(f, g) \ {far} : 2 * f[x] = Full
  /\ \A x \in SignChanges(f, g) : CrossesAtHalf(f, g, x)

\* C8 (as stated): for padrao and metragem, poor/average and average/good
\* have equal degree at exactly one point of the range, and that degree is
\* exactly 0.5.
C8_OneEqualPoint ==
  Computed =>
     /\ \A v \in {"padrao", "metragem"} :
          /\ membership[v]["poor"] = membership[v]["average"]
                => 2 * membership[v]["poor"] = Full
          /\ membership[v]["average"] = membership[v]["good"]
                => 2 * membership[v]["good"] = Full
     /\ EqualThroughout(padrao["poor"], padrao["average"]) = {}
     /\ EqualThroughout(padrao["average"], padrao["good"]) = {}
     /\ EqualThroughout(metragem["poor"], metragem["average"]) = {}
     /\ EqualThroughout(metragem["average"], metragem["good"]) = {}
     /\ NumEqualPoints(padrao["poor"], padrao["average"]) = 1
     /\ NumEqualPoints(padrao["average"], padrao["good"]) = 1
     /\ NumEqualPoints(metragem["poor"], metragem["average"]) = 1
     /\ NumEqualPoints(metragem["average"], metragem["good"]) = 1

\* C8 (amended): for padrao and metragem, poor/average and average/good
\* have equal nonzero degree at exactly one point of the range, and that
\* degree is exactly 0.5; the only other point of equal degree is the far
\* end of the range (the maximum for poor/average, the minimum for
\* average/good), where both degrees are 0.
C8_OneCrossingAtHalf ==
  Computed =>
     /\ \A v \in {"padrao", "metragem"} :
          /\ (/\ membership[v]["poor"] = membership[v]["average"]
              /\ membership[v]["poor"] > 0)
                => 2 * membership[v]["poor"] = Full
          /\ (/\ membership[v]["average"] = membership[v]["good"]
              /\ membership[v]["good"] > 0)
                => 2 * membership[v]["good"] = Full
     /\ OneCrossingAtHalf(padrao["poor"], padrao["average"], 10)
     /\ OneCrossingAtHalf(padrao["average"], padrao["good"], 0)
     /\ OneCrossingAtHalf(metragem["poor"], metragem["average"], 100)
     /\ OneCrossingAtHalf(metragem["average"], metragem["good"], 0)

C8_Witness ==
  /\ Computed
  /\ membership["padrao"]["poor"] = membership["padrao"]["average"]
  /\ 2 * membership["padrao"]["poor"] = Full
  /\ membership["metragem"]["average"] = membership["metragem"]["good"]
  /\ 2 * membership["metragem"]["good"] = Full

\* C9: over integer inputs padrao in 0..10 and metragem in 0..100, some rule
\* has nonzero firing strength except exactly when metragem = 50 and
\* padrao >= 5, where no rule fires and valor is underdetermined.
C9_ZeroFiringRegion ==
  (Computed /\ IntegerInputs) =>
     /\ NoRuleFired <=> (input["metragem"] = 50 * Den /\ input["padrao"] >= 5 * Den)
     /\ NoRuleFired <=> (pc = "raised")

C9_Witness ==
  /\ pc = "raised"
  /\ IntegerInputs
  /\ input["metragem"] = 50 * Den
  /\ input["padrao"] = 7 * Den
  /\ NoRuleFired

\* Outcome of compute() on an aggregated curve: the exception or the
\* centroid.
Outcome(agg) == IF ZeroArea(agg) THEN <<"raised">> ELSE <<"ok", Centroid(agg)>>

\* The control system without rule1 and rule8.
WithoutRule1And8 == SubSeq(valorping_ctrl, 2, 7)

\* C10: for every in-range input pair rule1 fires at most as strongly as
\* rule6 and rule8 at most as strongly as rule7, and the control system
\* without rule1 and rule8 yields the same aggregated curve of valor and the
\* same compute() outcome.
C10_Rule1And8Redundant ==
  Computed =>
     LET reduced == Aggregate(WithoutRule1And8,
                              Firing(WithoutRule1And8, membership), valor)
     IN /\ firing[1] <= firing[6]
        /\ firing[8] <= firing[7]
        /\ valorping_ctrl[1].consequent = valorping_ctrl[6].consequent
        /\ valorping_ctrl[8].consequent = valorping_ctrl[7].consequent
        /\ reduced = aggregated
        /\ IF pc = "raised"
           THEN Outcome(reduced) = <<"raised">>
           ELSE Outcome(reduced) = <<"ok", output["valor"]>>

C10_Witness ==
  /\ pc = "done"
  /\ firing[8] > 0
  /\ firing[8] < firing[7]
  /\ firing[1] = 0
====
